---- MODULE Spec2Model ----
(***************************************************************************)
(* A model of aitexthumaizer.py: the EnhancedTextHumanizer class (a        *)
(* sentence splitter, five rewrite operations, the humanize orchestrator   *)
(* and its transformation history) and the part of main() that keeps one   *)
(* humanizer per Streamlit session.                                        *)
(*                                                                         *)
(* Text is a TLA+ string, handled character by character.  The em dash     *)
(* (U+2014) of the source is written "~": the module is ASCII, and "~" is, *)
(* like the em dash, one character that is neither a word character, nor   *)
(* whitespace, nor sentence punctuation.  Every random draw of the code    *)
(* (random.random, random.choice, random.randint, random.sample) is a      *)
(* nondeterministic choice over all of its outcomes; the variable budget   *)
(* bounds how many of the random.random() < p tests come out true in one   *)
(* behaviour.                                                              *)
(***************************************************************************)
EXTENDS Integers, Sequences, FiniteSets, TLC

VARIABLES
    session,                 \* TRUE iff 'humanizer' is in st.session_state
    transformation_history,  \* self.transformation_history
    clock,                   \* what datetime.now() returns next
    calls,                   \* the text argument of every humanize call so far
    text,                    \* the text argument of the operation in hand
    style,                   \* the style argument of the last humanize call
    intensity,               \* the intensity argument of the last humanize call
    selected_mods,           \* the operations applied by the last call, in order
    ret,                     \* the value the last call returned
    pc,                      \* position of the driver: "ready", "again", "done"
    budget                   \* random.random() < p outcomes left to explore

vars == <<session, transformation_history, clock, calls, text, style,
          intensity, selected_mods, ret, pc, budget>>

----------------------------------------------------------------------------
(* Bounds of the model *)

\* Pieces a generated input text is made of, at most.
MaxPieces == 3
\* Whitespace-delimited tokens of a generated input of the hesitation loop.
MaxTokens == 4
\* humanize calls in one behaviour of the class and of the session.
MaxCalls == 2
\* random.random() < p outcomes explored in one behaviour of humanize.
MaxEdits == 1
\* random.random() < p outcomes explored in one run of a single operation.
MaxOpEdits == 3

----------------------------------------------------------------------------
(* Characters and strings *)

EmDash == "~"

Char(s, i) == SubSeq(s, i, i)

Chars(s) == {Char(s, i) : i \in 1..Len(s)}

\* \s of the regular expressions, and the separator set of str.split()/strip()
Whitespace == {" "}

\* [.!?] of the sentence splitter's lookbehind
Terminal == {".", "!", "?"}

\* \w of the regular expressions
WordChar ==
    Chars("abcdefghijklmnopqrstuvwxyzABCDEFGHIJKLMNOPQRSTUVWXYZ0123456789_")

Min(a, b) == IF a < b THEN a ELSE b
Max(a, b) == IF a > b THEN a ELSE b

\* the least j in a..b with P[j], or 0 when there is none: a scan from the
\* left that stops at the first hit (P is a function from a..b to BOOLEAN)
First(a, b, P) ==
    LET j == CHOOSE j \in a..Max(a, b + 1) :
                 (j > b \/ P[j]) /\ \A k \in a..(j - 1) : ~P[k]
    IN IF j > b THEN 0 ELSE j

\* str.startswith
StartsWith(s, p) == Len(p) <= Len(s) /\ SubSeq(s, 1, Len(p)) = p

\* the substring s[i..] (1-based)
From(s, i) == SubSeq(s, i, Len(s))

\* p occurs in s at position i
OccursAt(s, p, i) == i + Len(p) - 1 <= Len(s) /\ SubSeq(s, i, i + Len(p) - 1) = p

\* p in s
Contains(s, p) == \E i \in 1..Len(s) : OccursAt(s, p, i)

\* the first position >= i of s that holds no whitespace, or 0
NonSpaceFrom(s, i) ==
    First(i, Len(s), [j \in i..Len(s) |-> Char(s, j) \notin Whitespace])

\* the number of whitespace characters s ends with
TrailingSpace(s) ==
    First(1, Len(s) + 1,
          [k \in 1..(Len(s) + 1) |->
              k > Len(s) \/ Char(s, Len(s) + 1 - k) \notin Whitespace]) - 1

\* str.strip(): the text between the leading and the trailing whitespace
Strip(s) ==
    LET a == NonSpaceFrom(s, 1) IN
    IF a = 0 THEN "" ELSE SubSeq(s, a, Len(s) - TrailingSpace(s))

\* sep.join(parts)
RECURSIVE Join(_, _)
Join(sep, parts) ==
    IF parts = <<>> THEN ""
    ELSE IF Len(parts) = 1 THEN parts[1]
    ELSE parts[1] \o sep \o Join(sep, Tail(parts))

\* the end (exclusive) of the run of non-whitespace that starts at i
TokenEnd(s, i) ==
    First(i, Len(s) + 1,
          [j \in i..(Len(s) + 1) |-> j > Len(s) \/ Char(s, j) \in Whitespace])

\* str.split() from position i on: the maximal runs of non-whitespace
RECURSIVE SplitFrom(_, _)
SplitFrom(s, i) ==
    LET a == NonSpaceFrom(s, i) IN
    IF a = 0 THEN <<>>
    ELSE LET e == TokenEnd(s, a)
         IN <<SubSeq(s, a, e - 1)>> \o SplitFrom(s, e)

\* str.split()
Split(s) == SplitFrom(s, 1)

\* the first position >= i holding the character c, or 0
Find(s, c, i) == First(i, Len(s), [j \in i..Len(s) |-> Char(s, j) = c])

\* str.split(c) for a one-character separator
RECURSIVE SplitOn(_, _)
SplitOn(s, c) ==
    LET k == Find(s, c, 1) IN
    IF k = 0 THEN <<s>>
    ELSE <<SubSeq(s, 1, k - 1)>> \o SplitOn(From(s, k + 1), c)

\* list.insert(i, x), i a 0-based index >= 0
ListInsert(l, i, x) ==
    LET k == Min(i, Len(l)) IN SubSeq(l, 1, k) \o <<x>> \o SubSeq(l, k + 1, Len(l))

----------------------------------------------------------------------------
(* _simple_sentence_split: re.split(r'(?<=[.!?])\s+', text.strip()) *)

\* the first position > i of s that holds whitespace preceded by [.!?], or 0
SentenceBreak(s, i) ==
    First(i + 1, Len(s),
          [j \in (i + 1)..Len(s) |->
              Char(s, j) \in Whitespace /\ Char(s, j - 1) \in Terminal])

\* re.split from position i of an already stripped text: the separator is the
\* whole whitespace run (\s+ is greedy) that starts at the break, so the next
\* piece starts at the next character that is no whitespace
RECURSIVE ReSplit(_, _)
ReSplit(s, i) ==
    LET k == SentenceBreak(s, i) IN
    IF k = 0 THEN <<From(s, i)>>
    ELSE <<SubSeq(s, i, k - 1)>> \o ReSplit(s, NonSpaceFrom(s, k))

_simple_sentence_split(t) == ReSplit(Strip(t), 1)

----------------------------------------------------------------------------
(* _add_professional_transitions *)

\* the table without its However|Nevertheless entry
transition_mappings_first_only ==
    << [pattern |-> <<"Furthermore", "Moreover", "Additionally">>,
        replacements |-> {"In light of this,", "Considering this context,",
                          "From another perspective,"}] >>

\* the mapping table, in the order the dict is iterated
transition_mappings ==
    << [pattern |-> <<"Furthermore", "Moreover", "Additionally">>,
        replacements |-> {"In light of this,", "Considering this context,",
                          "From another perspective,"}],
       [pattern |-> <<"However", "Nevertheless">>,
        replacements |-> {"On the other hand,", "With that said,",
                          "It's worth noting that"}] >>

\* \b at position p: exactly one of the characters p-1 and p is a word character
WordBoundary(s, p) ==
    (p > 1 /\ Char(s, p - 1) \in WordChar) # (p <= Len(s) /\ Char(s, p) \in WordChar)

\* the length of the first of the alternatives w1|w2|... that occurs at
\* position i and ends at a word boundary, or 0
RECURSIVE MatchWord(_, _, _)
MatchWord(s, i, words) ==
    IF words = <<>> THEN 0
    ELSE IF OccursAt(s, Head(words), i) /\ WordBoundary(s, i + Len(Head(words)))
         THEN Len(Head(words))
         ELSE MatchWord(s, i, Tail(words))

\* the length of the match of \b(w1|w2|...)\b at position i, or 0
MatchAt(s, i, words) == IF WordBoundary(s, i) THEN MatchWord(s, i, words) ELSE 0

\* re.sub(..., count=1): the first match replaced, the rest of s kept
ReSubOnce(s, i, m) ==
    LET k == First(i, Len(s), [j \in i..Len(s) |-> MatchAt(s, j, m.pattern) > 0])
    IN
    IF k = 0 THEN {From(s, i)}
    ELSE {SubSeq(s, i, k - 1) \o r \o From(s, k + MatchAt(s, k, m.pattern)) :
            r \in m.replacements}

\* re.sub(pattern, lambda m: random.choice(replacements), s) from position i on,
\* match by match from the left: every result the choices can give
RECURSIVE ReSub(_, _, _)
ReSub(s, i, m) ==
    LET k == First(i, Len(s), [j \in i..Len(s) |-> MatchAt(s, j, m.pattern) > 0])
    IN
    IF k = 0 THEN {From(s, i)}
    ELSE {SubSeq(s, i, k - 1) \o r \o rest :
            r \in m.replacements,
            rest \in ReSub(s, k + MatchAt(s, k, m.pattern), m)}

RECURSIVE TransitionLoop(_, _)
TransitionLoop(ts, mappings) ==
    IF mappings = <<>> THEN ts
    ELSE TransitionLoop(UNION {ReSub(t, 1, Head(mappings)) : t \in ts},
                        Tail(mappings))

\* every result of the operation, with the budget it leaves
_add_professional_transitions(t, b) ==
    {[t |-> u, b |-> b] : u \in TransitionLoop({t}, transition_mappings)}

----------------------------------------------------------------------------
(* The three per-sentence operations: what each does to a sentence when    *)
(* its random.random() test comes out true.                                *)

(* _vary_sentence_structure *)

interjections == {"Notably,", "Interestingly,", "Indeed,"}

\* the guarded prefix: nothing changes when the sentence starts with an
\* interjection already
VaryRewrites(sentence) ==
    IF \E interj \in interjections : StartsWith(sentence, interj)
    THEN {sentence}
    ELSE {interj \o " " \o sentence : interj \in interjections}

(* _add_contextual_nuance *)

qualifiers == {"It appears that", "From our analysis,",
               "Based on current insights,", "Our research suggests that"}

NuanceRewrites(sentence) == {q \o " " \o sentence : q \in qualifiers}

(* _refine_punctuation *)

\* re.sub of every run of two or more c by one c, run by run from the left
RECURSIVE Collapse(_, _)
Collapse(s, c) ==
    LET k == First(1, Len(s) - 1,
                   [i \in 1..(Len(s) - 1) |-> Char(s, i) = c /\ Char(s, i + 1) = c])
        e == First(k, Len(s) + 1,
                   [j \in k..(Len(s) + 1) |-> j > Len(s) \/ Char(s, j) # c])
    IN IF k = 0 THEN s ELSE SubSeq(s, 1, k) \o Collapse(From(s, e), c)

PunctuationRewrites(sentence) ==
    LET parts == SplitOn(sentence, ",") IN
    IF Len(parts) > 1
    THEN {parts[1] \o " " \o EmDash \o " " \o Join(",", Tail(parts))}
    ELSE {sentence}

Rewrites(op, sentence) ==
    CASE op = "_vary_sentence_structure" -> VaryRewrites(sentence)
      [] op = "_add_contextual_nuance" -> NuanceRewrites(sentence)
      [] op = "_refine_punctuation" -> PunctuationRewrites(sentence)

(* The loop the three share: for each sentence either random.random() is   *)
(* not below the threshold and the sentence is kept, or it is (one unit of *)
(* budget) and the sentence is rewritten in one of the ways Rewrites       *)
(* gives.  The result is the set of [t |-> the sentences joined, b |-> the *)
(* budget left].                                                           *)
\* ''.join(sentences)
JoinSentencesNoSpace(sentences) == Join("", sentences)

\* ' '.join(sentences), the last line of each of the three
JoinSentences(sentences) == Join(" ", sentences)

RECURSIVE SentenceLoop(_, _, _, _)
SentenceLoop(op, sentences, done, b) ==
    IF sentences = <<>> THEN {[t |-> JoinSentences(done), b |-> b]}
    ELSE LET s == Head(sentences) IN
         SentenceLoop(op, Tail(sentences), Append(done, s), b)
         \cup (IF b = 0 THEN {}
               ELSE UNION {SentenceLoop(op, Tail(sentences), Append(done, r), b - 1)
                           : r \in Rewrites(op, s)})

_vary_sentence_structure(t, b) ==
    SentenceLoop("_vary_sentence_structure", _simple_sentence_split(t), <<>>, b)

_add_contextual_nuance(t, b) ==
    SentenceLoop("_add_contextual_nuance", _simple_sentence_split(t), <<>>, b)

_refine_punctuation(t, b) ==
    SentenceLoop("_refine_punctuation",
                 _simple_sentence_split(Collapse(Collapse(t, "!"), "?")), <<>>, b)

----------------------------------------------------------------------------
(* _introduce_natural_hesitation *)

\* the markers, stripped as the insertion strips them
hesitation_markers == {Strip(m) : m \in {" " \o EmDash \o " ", " ... ",
                                         " well, ", " actually, "}}

\* range(n - 1, -1, -1): the index 0 visited too
HesitationRangeToZero(n) == [k \in 1..n |-> n - k]

\* range(1, n): the indices visited from the left
HesitationRangeForward(n) == [k \in 1..Max(n - 1, 0) |-> k]

\* range(n - 1, 0, -1) as a sequence: n-1, n-2, ..., 1
HesitationRange(n) == [k \in 1..Max(n - 1, 0) |-> n - k]

\* the loop over the indices still to visit: at each one either no insertion,
\* or (one unit of budget) words.insert(i, marker); with no budget left no
\* index still to visit inserts anything
RECURSIVE HesitationLoop(_, _, _)
HesitationLoop(words, range, b) ==
    IF range = <<>> \/ b = 0 THEN {[t |-> Join(" ", words), b |-> b]}
    ELSE HesitationLoop(words, Tail(range), b)
         \cup (IF b = 0 THEN {}
               ELSE UNION {HesitationLoop(ListInsert(words, Head(range), m),
                                          Tail(range), b - 1)
                           : m \in hesitation_markers})

_introduce_natural_hesitation(t, b) ==
    LET words == Split(t) IN HesitationLoop(words, HesitationRange(Len(words)), b)

----------------------------------------------------------------------------
(* humanize *)

\* self.modifications, by the __name__ the history records
modifications ==
    << "_add_professional_transitions", "_vary_sentence_structure",
       "_introduce_natural_hesitation", "_add_contextual_nuance",
       "_refine_punctuation" >>

\* one operation applied to t: every result, with the budget it leaves
Apply(op, t, b) ==
    CASE op = "_add_professional_transitions" -> _add_professional_transitions(t, b)
      [] op = "_vary_sentence_structure" -> _vary_sentence_structure(t, b)
      [] op = "_introduce_natural_hesitation" -> _introduce_natural_hesitation(t, b)
      [] op = "_add_contextual_nuance" -> _add_contextual_nuance(t, b)
      [] op = "_refine_punctuation" -> _refine_punctuation(t, b)

\* the style factors in hundredths: 1.0, 0.8, 1.2
style_modifiers == [Professional |-> 100, Casual |-> 80, Technical |-> 120]

\* style_modifiers.get(style, 1.0)
style_factor(st) ==
    IF st \in DOMAIN style_modifiers THEN style_modifiers[st] ELSE 100

\* round(n / d) as Python rounds: to the nearest integer, a tie to the even one
Round(n, d) ==
    LET q == n \div d
        r == n % d
    IN IF 2 * r < d THEN q
       ELSE IF 2 * r > d THEN q + 1
       ELSE IF q % 2 = 0 THEN q ELSE q + 1

\* a humanize without its guard
IsEmptyNever(t) == FALSE

\* "if not text"
IsEmpty(t) == t = ""

\* the values random.randint(2, len(self.modifications)) can return
BaseCounts == 2..Len(modifications)

\* num_mods without the floor of 2
NumModsNoFloor(r, i, st) ==
    Min(Len(modifications), Round(r * i * style_factor(st), 5 * 100))

\* num_mods for the base count r that random.randint returned:
\* r * (intensity/5) * style_factor is r * intensity * factor / (5 * 100)
NumMods(r, i, st) ==
    Max(2, Min(Len(modifications), Round(r * i * style_factor(st), 5 * 100)))

\* the values num_mods can take, over the draws of random.randint
NumModsChoices(i, st) == {NumMods(r, i, st) : r \in BaseCounts}

\* a draw with replacement: random.choices in place of random.sample
SampleWithReplacement(k) ==
    [1..k -> {"_add_professional_transitions", "_vary_sentence_structure",
              "_introduce_natural_hesitation", "_add_contextual_nuance",
              "_refine_punctuation"}]

\* random.sample(self.modifications, k): the sequences of k distinct operations
Sample(k) ==
    {q \in [1..k -> {modifications[j] : j \in 1..Len(modifications)}] :
        \A x, y \in 1..k : x # y => q[x] # q[y]}

\* the loop over selected_mods, each operation consuming the previous output
RECURSIVE ApplyAll(_, _)
ApplyAll(mods, outcomes) ==
    IF mods = <<>> THEN outcomes
    ELSE ApplyAll(Tail(mods),
                  UNION {Apply(Head(mods), o.t, o.b) : o \in outcomes})

\* a record that takes both lengths from the humanized text
transformation_record_swapped(now, t, humanized, st, i, mods) ==
    [timestamp |-> now,
     original_length |-> Len(humanized),
     humanized_length |-> Len(humanized),
     style |-> st,
     intensity |-> i,
     modifications_applied |-> mods]

transformation_record(now, t, humanized, st, i, mods) ==
    [timestamp |-> now,
     original_length |-> Len(t),
     humanized_length |-> Len(humanized),
     style |-> st,
     intensity |-> i,
     modifications_applied |-> mods]

\* humanize(t, st, i) on the humanizer whose history is history
humanize(history, t, st, i) ==
    /\ calls' = Append(calls, t)
    /\ text' = t
    /\ style' = st
    /\ intensity' = i
    /\ IF IsEmpty(t)
       THEN /\ ret' = t
            /\ selected_mods' = <<>>
            /\ transformation_history' = history
            /\ UNCHANGED <<clock, budget>>
       ELSE \E num_mods \in NumModsChoices(i, st) :
            \E mods \in Sample(num_mods) :
            \E o \in ApplyAll(mods, {[t |-> t, b |-> budget]}) :
                /\ selected_mods' = mods
                /\ ret' = o.t
                /\ budget' = o.b
                /\ clock' = clock + 1
                /\ transformation_history' =
                       Append(history,
                              transformation_record(clock, t, o.t, st, i, mods))

----------------------------------------------------------------------------
(* Inputs *)

\* the labels of the style selectbox, and one the table does not know
KnownStyles == {"Professional", "Casual", "Technical"}
Styles == KnownStyles \cup {"Friendly"}

\* the range of the intensity slider
Intensities == 1..10

\* the texts made of at most n pieces
RECURSIVE TextsOf(_, _)
TextsOf(pieces, n) ==
    IF n = 0 THEN {""}
    ELSE LET shorter == TextsOf(pieces, n - 1)
         IN shorter \cup {t \o p : t \in shorter, p \in pieces}

\* the texts of at most n tokens joined by single spaces
RECURSIVE TokenTexts(_, _)
TokenTexts(tokens, n) ==
    IF n = 0 THEN {""}
    ELSE LET shorter == TokenTexts(tokens, n - 1)
         IN shorter \cup tokens
            \cup {t \o " " \o k : t \in shorter \ {""}, k \in tokens}

Scenario ==
    "AI improves efficiency. However, it has risks. Furthermore, adoption is growing."

\* the state before anything ran: no humanizer in the session, and a
\* humanizer as __init__ leaves it, with an empty history
Fresh ==
    /\ session = FALSE
    /\ transformation_history = <<>>
    /\ clock = 0
    /\ calls = <<>>
    /\ selected_mods = <<>>
    /\ ret = ""

\* no call yet: the arguments hold the defaults of humanize's signature
Start == Fresh /\ text = "" /\ style = "Professional" /\ intensity = 5

----------------------------------------------------------------------------
(* Spec: the Streamlit session.  Every interaction reruns main(): it puts a *)
(* humanizer into the session when there is none and, when the button was   *)
(* pressed on a non-empty text area, calls humanize on the session's one.    *)

SessionTexts == {"", "a, b"}
SessionIntensities == {1, 2}

\* a humanizer constructed by every run of the script
SessionHistoryRecreated == <<>>

\* the history of st.session_state.humanizer after lines 199-200
SessionHistory == IF session THEN transformation_history ELSE <<>>

main(button, input_text, st, i) ==
    /\ session' = TRUE
    /\ IF button /\ input_text # ""
       THEN /\ Len(SessionHistory) < MaxCalls
            /\ humanize(SessionHistory, input_text, st, i)
       ELSE /\ transformation_history' = SessionHistory
            /\ UNCHANGED <<clock, calls, text, style, intensity, selected_mods,
                           ret, budget>>
    /\ UNCHANGED pc

Init == Start /\ pc = "ready" /\ budget = MaxEdits

Next ==
    \E button \in BOOLEAN, input_text \in SessionTexts,
       st \in KnownStyles, i \in SessionIntensities :
        main(button, input_text, st, i)

Spec == Init /\ [][Next]_vars

----------------------------------------------------------------------------
(* SpecCalls: a sequence of humanize calls on one humanizer.  The empty    *)
(* text comes with every style and intensity, a non-empty one with a few.   *)

CallTexts == {"", "a", "a, b"}
CallStyles == {"Casual"}
CallIntensities == {3}

InitCalls == Start /\ pc = "ready" /\ budget = MaxEdits

NextCalls ==
    \E t \in CallTexts, st \in Styles, i \in Intensities :
        /\ Len(calls) < MaxCalls
        /\ t = "" \/ (st \in CallStyles /\ i \in CallIntensities)
        /\ humanize(transformation_history, t, st, i)
        /\ UNCHANGED <<session, pc>>

SpecCalls == InitCalls /\ [][NextCalls]_vars

----------------------------------------------------------------------------
(* SpecRepeat: the same call repeated on one humanizer, the style and the   *)
(* intensity drawn by the initial state.                                    *)

RepeatIntensities == 1..3

InitRepeat ==
    /\ Fresh
    /\ pc = "ready"
    /\ budget = MaxEdits
    /\ text = "a"
    /\ style \in Styles
    /\ intensity \in RepeatIntensities

NextRepeat ==
    /\ Len(calls) < MaxCalls
    /\ humanize(transformation_history, text, style, intensity)
    /\ UNCHANGED <<session, pc>>

SpecRepeat == InitRepeat /\ [][NextRepeat]_vars

----------------------------------------------------------------------------
(* SpecCall: one humanize call on a fresh humanizer, the arguments drawn by *)
(* the initial state: a short text with every style and intensity, or any   *)
(* text of a few pieces with the default style and intensity.               *)

Pieces == {"a", " ", ".", ",", "!"}

InitCall ==
    /\ Fresh
    /\ pc = "ready"
    /\ budget = MaxEdits
    /\ \/ text \in {"", "a. b"} /\ style \in Styles /\ intensity \in Intensities
       \/ text \in TextsOf(Pieces, MaxPieces) /\ style = "Professional"
          /\ intensity = 5

NextCall ==
    /\ pc = "ready"
    /\ humanize(transformation_history, text, style, intensity)
    /\ pc' = "done"
    /\ UNCHANGED session

SpecCall == InitCall /\ [][NextCall]_vars

----------------------------------------------------------------------------
(* SpecScenario: one call with the end-to-end example of the documentation *)

InitScenario ==
    /\ Fresh
    /\ pc = "ready"
    /\ budget = MaxEdits
    /\ text = Scenario /\ style = "Professional" /\ intensity = 5

SpecScenario == InitScenario /\ [][NextCall]_vars

----------------------------------------------------------------------------
(* SpecOps: one run of the transition substitution or of the hesitation     *)
(* insertion on a text the initial state draws: any text of a few pieces,   *)
(* or a few tokens joined by spaces.                                        *)

OpPieces == {"Furthermore", "Moreover", "Additionally", "However",
             "Nevertheless", "s", " ", ","}
OpTokens == {"a", "b.", EmDash}

InitOps ==
    /\ Fresh
    /\ pc = "ready"
    /\ budget = MaxOpEdits
    /\ text \in TextsOf(OpPieces, MaxPieces) \cup TokenTexts(OpTokens, MaxTokens)
    /\ style = "Professional"
    /\ intensity = 5

Run(op) ==
    /\ pc = "ready"
    /\ \E o \in Apply(op, text, budget) :
        /\ ret' = o.t
        /\ budget' = o.b
    /\ selected_mods' = <<op>>
    /\ pc' = "done"
    /\ UNCHANGED <<session, transformation_history, clock, calls, text, style,
                   intensity>>

Transitions == Run("_add_professional_transitions")
Hesitation == Run("_introduce_natural_hesitation")

NextOps == Transitions \/ Hesitation

SpecOps == InitOps /\ [][NextOps]_vars

----------------------------------------------------------------------------
(* The claims *)

Range(q) == {q[k] : k \in 1..Len(q)}
IsPrefix(a, b) == Len(a) <= Len(b) /\ SubSeq(b, 1, Len(a)) = a
NonEmpty(t) == t # ""
Hes == "_introduce_natural_hesitation"
Trans == "_add_professional_transitions"

\* w occurs in s as a whole word: between two word boundaries
WholeWordIn(s, w) ==
    \E i \in 1..Len(s) :
        OccursAt(s, w, i) /\ WordBoundary(s, i) /\ WordBoundary(s, i + Len(w))

\* the number of sentences the sentence splitter finds
SentenceCount(t) == Len(_simple_sentence_split(t))

\* the tokens w with marks[g] (when not "") put between token g and token g+1
RECURSIVE Weave(_, _, _)
Weave(w, marks, k) ==
    IF k > Len(w) THEN <<>>
    ELSE <<w[k]>>
         \o (IF k < Len(w) /\ marks[k] # "" THEN <<marks[k]>> ELSE <<>>)
         \o Weave(w, marks, k + 1)

\* C1: a humanize call with the empty string, whatever the style and the
\* intensity, returns the empty string, applies no operation, and leaves the
\* transformation history as it was.
C1_EmptyInput ==
    [][(Len(calls') = Len(calls) + 1 /\ text' = "")
         => /\ ret' = ""
            /\ selected_mods' = <<>>
            /\ transformation_history' = transformation_history]_vars

\* an empty call made on a humanizer whose history holds a record
C1_Witness ==
    /\ Len(calls) = 2
    /\ calls[2] = ""
    /\ Len(transformation_history) = 1
    /\ ret = ""
    /\ style = "Technical"

\* C2: for a non-empty text, any style label and any intensity of 1..10, the
\* operations one call applies are pairwise distinct and there are between 2
\* and 5 of them.
C2_DistinctBetweenTwoAndFive ==
    (pc = "done" /\ text # "")
        => /\ Len(selected_mods) \in 2..5
           /\ \A x, y \in 1..Len(selected_mods) :
                  x # y => selected_mods[x] # selected_mods[y]
           /\ Range(selected_mods) \subseteq Range(modifications)

\* a call with a style the table does not know, at the top intensity, that
\* applied all five
C2_Witness ==
    /\ pc = "done"
    /\ text = "a. b"
    /\ style = "Friendly"
    /\ intensity = 10
    /\ Len(selected_mods) = 5

\* C3: the history is as long as the number of calls so far whose text was
\* not empty, and its i-th record holds the length of the text of the i-th
\* of them.
C3_HistoryCountsNonEmptyCalls ==
    LET made == SelectSeq(calls, NonEmpty) IN
    /\ Len(transformation_history) = Len(made)
    /\ \A k \in 1..Len(made) :
           transformation_history[k].original_length = Len(made[k])

\* two calls with texts of different lengths, the first rewritten to a longer
\* text
C3_Witness ==
    /\ Len(transformation_history) = 2
    /\ calls = <<"a, b", "a">>
    /\ transformation_history[1].humanized_length > 4

\* C4 as stated: whatever the call selects, the result for the scenario is
\* non-empty and holds neither "However" nor "Furthermore".
C4_Original ==
    pc = "done"
        => /\ ret # ""
           /\ ~Contains(ret, "However")
           /\ ~Contains(ret, "Furthermore")

\* C4, amended: the result for the scenario is non-empty; it holds neither
\* "However" nor "Furthermore" when the transition substitution is among the
\* operations the call selected, and both of them when it is not.
C4_NoConnectiveWhenTransitionsSelected ==
    pc = "done"
        => /\ ret # ""
           /\ Trans \in Range(selected_mods)
                => ~Contains(ret, "However") /\ ~Contains(ret, "Furthermore")
           /\ Trans \notin Range(selected_mods)
                => Contains(ret, "However") /\ Contains(ret, "Furthermore")

\* the substitution applied last, after an insertion of the hesitation loop
C4_Witness ==
    /\ pc = "done"
    /\ Len(selected_mods) = 5
    /\ selected_mods[1] = Hes
    /\ selected_mods[5] = Trans
    /\ "well," \in Range(Split(ret))
    /\ ~Contains(ret, "However")

\* C5 as stated: the number of operations is fixed by the style and the
\* intensity, so two calls with the same style and intensity apply the same
\* number.
C5_Original ==
    \A j, k \in 1..Len(transformation_history) :
        LET a == transformation_history[j]
            b == transformation_history[k]
        IN (a.style = b.style /\ a.intensity = b.intensity)
               => Len(a.modifications_applied) = Len(b.modifications_applied)

\* C5, amended: the number of operations is
\* clamp(round(base * (intensity/5) * factor), 2, 5) for a base that each call
\* draws from 2..5, and for the factor of the style (1.0, 0.8, 1.2; 1.0 for a
\* label the table does not know).
C5_CountFromRandomBase ==
    \A k \in 1..Len(transformation_history) :
        LET h == transformation_history[k]
            hundredths == CASE h.style = "Casual" -> 80
                            [] h.style = "Technical" -> 120
                            [] OTHER -> 100
            \* round(base * intensity * hundredths / 500); no value is a tie
            rounded(base) == (2 * base * h.intensity * hundredths + 500) \div 1000
        IN \E base \in 2..5 :
               Len(h.modifications_applied) = Max(2, Min(5, rounded(base)))

\* two calls with the same style and intensity that applied 2 and 3 operations
C5_Witness ==
    /\ Len(transformation_history) = 2
    /\ style = "Technical"
    /\ transformation_history[1].style = transformation_history[2].style
    /\ transformation_history[1].intensity = transformation_history[2].intensity
    /\ Len(transformation_history[1].modifications_applied) = 2
    /\ Len(transformation_history[2].modifications_applied) = 3

\* C6 as stated: the output of the transition substitution holds no
\* occurrence of "Furthermore", "Moreover" or "Additionally".
C6_Original ==
    (pc = "done" /\ selected_mods = <<Trans>>)
        => \A w \in {"Furthermore", "Moreover", "Additionally"} : ~Contains(ret, w)

\* C6, amended: the output of the transition substitution holds no whole-word
\* occurrence (one between two word boundaries) of "Furthermore", "Moreover"
\* or "Additionally"; an occurrence inside a longer word stays.
C6_NoWholeWordLeft ==
    (pc = "done" /\ selected_mods = <<Trans>>)
        => /\ \A w \in {"Furthermore", "Moreover", "Additionally"} :
                  ~WholeWordIn(ret, w)
           /\ (\A w \in Range(transition_mappings[1].pattern)
                        \cup Range(transition_mappings[2].pattern) :
                   ~WholeWordIn(text, w)) => ret = text

\* two whole-word occurrences replaced in one run
C6_Witness ==
    /\ pc = "done"
    /\ selected_mods = <<Trans>>
    /\ text = "Moreover Furthermore"
    /\ ret = "In light of this, From another perspective,"

\* C7: the sentence count of the output of humanize is at least the sentence
\* count of its non-empty input, whichever operations it applied in whichever
\* order.
C7_SentenceCountNotBelow ==
    (pc = "done" /\ text # "") => SentenceCount(ret) >= SentenceCount(text)

\* all five operations applied to a text of two sentences, one of them
\* rewritten
C7_Witness ==
    /\ pc = "done"
    /\ text = ". a"
    /\ Len(selected_mods) = 5
    /\ budget < MaxEdits
    /\ SentenceCount(ret) = 2

\* C8: the first token of the output of the hesitation insertion is the first
\* token of its input.
C8_FirstTokenKept ==
    (pc = "done" /\ selected_mods = <<Hes>> /\ Split(text) # <<>>)
        => /\ Split(ret) # <<>>
           /\ Split(ret)[1] = Split(text)[1]

\* a marker inserted right after the first token
C8_Witness ==
    /\ pc = "done"
    /\ selected_mods = <<Hes>>
    /\ Len(Split(text)) >= 2
    /\ Split(ret)[1] = "a"
    /\ Split(ret)[2] = "well,"

\* C9: the output of the hesitation insertion is its n input tokens in their
\* order with at most one marker between any two neighbours and none before
\* the first or after the last.
C9_OneMarkerPerGap ==
    (pc = "done" /\ selected_mods = <<Hes>>)
        => LET w == Split(text) IN
           \E marks \in [1..(Len(w) - 1) -> hesitation_markers \cup {""}] :
               Split(ret) = Weave(w, marks, 1)

\* three insertions into a text of four tokens
C9_Witness ==
    /\ pc = "done"
    /\ selected_mods = <<Hes>>
    /\ Len(Split(text)) = 4
    /\ Len(Split(ret)) = 7

\* C10: within one session the history only grows: what it held before a run
\* of the script is a prefix of what it holds after.
C10_HistoryAppendOnly ==
    [][IsPrefix(transformation_history, transformation_history')]_vars

\* a session whose humanizer has served two calls
C10_Witness ==
    /\ session
    /\ Len(transformation_history) = 2
    /\ Len(calls) = 2

====
